---- MODULE Spec2Model ----
(***************************************************************************)
(* Model of bin/preprocess-epub.py: the figure-shortcode rewriter          *)
(* (convert_figure_shortcode) and the file/directory driver                *)
(* (process_file, main).                                                   *)
(*                                                                         *)
(* Text is a sequence of tokens.  Every token is a string of characters    *)
(* of the real text; the regular expressions of the source are evaluated   *)
(* token by token with the character classes of the source ([^>], [^"],    *)
(* \s) and with Python's greedy, backtracking, leftmost, non-overlapping   *)
(* re.sub semantics.                                                       *)
(***************************************************************************)
EXTENDS Integers, Sequences, FiniteSets, TLC

\* Bounds of the model.
MaxItems == 2
MaxAttrs == 2
MaxFiles == 3

VARIABLES
    doc, text, out1, out2, rpc,                       \* rewriter
    argv, files, dirs, pc, stdout, status,            \* driver
    mode, md_files, idx, input_path, output_path, content, converted,
    files0, readLog, writeLog, failedAt, ioFault      \* history

rvars == <<doc, text, out1, out2, rpc>>
dvars == <<argv, files, dirs, pc, stdout, status,
           mode, md_files, idx, input_path, output_path, content, converted,
           files0, readLog, writeLog, failedAt, ioFault>>
vars == <<doc, text, out1, out2, rpc,
          argv, files, dirs, pc, stdout, status,
          mode, md_files, idx, input_path, output_path, content, converted,
          files0, readLog, writeLog, failedAt, ioFault>>

----------------------------------------------------------------------------
\* Tokens of the text.

OPEN == "{{< figure"
SP == " "
QUOTE == "\""
GT == ">"
RBRACES == "}}"
EOT == ""

\* The token at position i, EOT beyond the ends of the text.
At(t, i) == IF i \in 1..Len(t) THEN t[i] ELSE EOT

\* The character classes the patterns use: \s, [^"], [^>].
InClass(cls, c) ==
    /\ c # EOT
    /\ CASE cls = "space" -> c \in {" ", "\n"}
         [] cls = "notquote" -> c # QUOTE
         [] cls = "notgt" -> c # GT

\* Where a greedy run cls* that starts at i stops: the first position at or
\* after i whose token is not in the class.
RunEnd(cls, t, i) ==
    CHOOSE j \in i..(Len(t) + 1) :
        /\ \A k \in i..(j - 1) : InClass(cls, t[k])
        /\ ~InClass(cls, At(t, j))

Max(S) == CHOOSE x \in S : \A y \in S : y <= x

NoMatch == [end |-> 0, g1 |-> <<>>, g2 |-> <<>>]

\* The common head of the two src patterns: \{\{< figure\s+src="([^"]+)"
\* matched at i.  q is the position of the quote closing group 1, 0 if the
\* head does not match.
SrcHead(t, i) ==
    LET s1 == RunEnd("space", t, i + 1)
        q1 == RunEnd("notquote", t, s1 + 2)
    IN IF /\ At(t, i) = OPEN
          /\ s1 > i + 1
          /\ At(t, s1) = "src="
          /\ At(t, s1 + 1) = QUOTE
          /\ q1 > s1 + 2
          /\ At(t, q1) = QUOTE
       THEN [q |-> q1, g1 |-> SubSeq(t, s1 + 2, q1 - 1)]
       ELSE [q |-> 0, g1 |-> <<>>]

\* \scaption="([^"]*)"[^>]*>\}\} matched at k: the end of the match (the
\* position after it), 0 if it does not match.
CaptionTailEnd(t, k) ==
    LET q2 == RunEnd("notquote", t, k + 3)
        g2 == RunEnd("notgt", t, q2 + 1)
    IN IF /\ InClass("space", At(t, k))
          /\ At(t, k + 1) = "caption="
          /\ At(t, k + 2) = QUOTE
          /\ At(t, q2) = QUOTE
          /\ At(t, g2) = GT
          /\ At(t, g2 + 1) = RBRACES
       THEN g2 + 2
       ELSE 0

\* pattern_with_caption matched at i.  The first [^>]* is greedy: of the
\* stops k that let the rest match, the engine takes the last.
MatchWithCaption(t, i) ==
    LET h == SrcHead(t, i)
        a == h.q + 1
        Ks == {k \in a..RunEnd("notgt", t, a) : CaptionTailEnd(t, k) # 0}
        k == Max(Ks)
    IN IF h.q # 0 /\ Ks # {}
       THEN [end |-> CaptionTailEnd(t, k),
             g1 |-> h.g1,
             g2 |-> SubSeq(t, k + 3, RunEnd("notquote", t, k + 3) - 1)]
       ELSE NoMatch

\* pattern_without_caption matched at i.
MatchWithoutCaption(t, i) ==
    LET h == SrcHead(t, i)
        g == RunEnd("notgt", t, h.q + 1)
    IN IF h.q # 0 /\ At(t, g) = GT /\ At(t, g + 1) = RBRACES
       THEN [end |-> g + 2, g1 |-> h.g1, g2 |-> <<>>]
       ELSE NoMatch

\* pattern_no_src without its \{\{< figure anchor, [^>]*>\}\}, matched at i.
MatchNoSrcUnanchored(t, i) ==
    LET g == RunEnd("notgt", t, i)
    IN IF At(t, g) = GT /\ At(t, g + 1) = RBRACES
       THEN [end |-> g + 2, g1 |-> <<>>, g2 |-> <<>>]
       ELSE NoMatch

\* pattern_no_src matched at i.
MatchNoSrc(t, i) ==
    LET g == RunEnd("notgt", t, i + 1)
    IN IF At(t, i) = OPEN /\ At(t, g) = GT /\ At(t, g + 1) = RBRACES
       THEN [end |-> g + 2, g1 |-> <<>>, g2 |-> <<>>]
       ELSE NoMatch

Match(p, t, i) ==
    CASE p = "with_caption" -> MatchWithCaption(t, i)
      [] p = "without_caption" -> MatchWithoutCaption(t, i)
      [] p = "no_src" -> MatchNoSrc(t, i)

\* src.startswith('/') and 'static' + src.
StaticSrc(src) == IF At(src, 1) = "/" THEN <<"static">> \o src ELSE src

replace_with_caption(m) ==
    <<"![">> \o m.g2 \o <<"](">> \o StaticSrc(m.g1) \o <<")">>

replace_without_caption(m) ==
    <<"[", "](">> \o StaticSrc(m.g1) \o <<")">>

Repl(p, m) ==
    CASE p = "with_caption" -> replace_with_caption(m)
      [] p = "without_caption" -> replace_without_caption(m)
      [] p = "no_src" -> <<>>

\* re.sub(pattern, repl, text, count=1) from position i: only the first
\* match is replaced.
RECURSIVE re_sub_first(_, _, _)
re_sub_first(p, t, i) ==
    IF i > Len(t) THEN <<>>
    ELSE LET m == Match(p, t, i)
         IN IF m.end # 0
            THEN Repl(p, m) \o SubSeq(t, m.end, Len(t))
            ELSE <<t[i]>> \o re_sub_first(p, t, i + 1)

\* re.sub(pattern, repl, text) from position i: the leftmost match at or
\* after i is replaced and the scan goes on after it.
RECURSIVE re_sub(_, _, _)
re_sub(p, t, i) ==
    IF i > Len(t) THEN <<>>
    ELSE LET m == Match(p, t, i)
         IN IF m.end # 0
            THEN Repl(p, m) \o re_sub(p, t, m.end)
            ELSE <<t[i]>> \o re_sub(p, t, i + 1)

convert_figure_shortcode(t) ==
    re_sub("no_src", re_sub("without_caption", re_sub("with_caption", t, 1), 1), 1)

----------------------------------------------------------------------------
\* The documents the rewriter is applied to: up to MaxItems items, each a
\* figure shortcode with up to MaxAttrs attributes (distinct keys, any
\* order), a Markdown image, or plain text.

SrcVals == {<<"/", "a">>, <<"static", "/", "a">>}
CaptionVals == {<<"C">>, <<"C", GT, "C">>}
TitleVals == {<<"T">>}

Attrs ==
    [key : {"src="}, val : SrcVals]
        \cup [key : {"caption="}, val : CaptionVals]
        \cup [key : {"title="}, val : TitleVals]

AttrLists ==
    {as \in UNION {[1..n -> Attrs] : n \in 0..MaxAttrs} :
        \A i, j \in 1..Len(as) : i # j => as[i].key # as[j].key}

ImagePaths == {<<"/", "a">>, <<"static", "/", "a">>}

Items ==
    [kind : {"figure"}, attrs : AttrLists, path : {<<>>}]
        \cup [kind : {"image"}, attrs : {<<>>}, path : ImagePaths]
        \cup [kind : {"text"}, attrs : {<<>>}, path : {<<>>}]

RECURSIVE AttrText(_)
AttrText(as) ==
    IF as = <<>> THEN <<>>
    ELSE <<SP, as[1].key, QUOTE>> \o as[1].val \o <<QUOTE>> \o AttrText(Tail(as))

\* {{< figure k1="v1" k2="v2" >}}
Shortcode(as) == <<OPEN>> \o AttrText(as) \o <<SP, GT, RBRACES>>

\* ![x](path)
MdImage(path) == <<"![", "x", "](">> \o path \o <<")">>

ItemText(it) ==
    CASE it.kind = "figure" -> Shortcode(it.attrs)
      [] it.kind = "image" -> MdImage(it.path)
      [] it.kind = "text" -> <<"See", SP>>

RECURSIVE Render(_)
Render(d) == IF d = <<>> THEN <<>> ELSE ItemText(d[1]) \o Render(Tail(d))

Docs == UNION {[1..n -> Items] : n \in 0..MaxItems}

----------------------------------------------------------------------------
\* The rewriter applied once, and then again to its own output.

DriverIdle ==
    /\ argv = <<>>
    /\ files = <<>>
    /\ dirs = {}
    /\ pc = "idle"
    /\ stdout = <<>>
    /\ status = -1
    /\ mode = "none"
    /\ md_files = <<>>
    /\ idx = 0
    /\ input_path = <<>>
    /\ output_path = <<>>
    /\ content = <<>>
    /\ converted = <<>>
    /\ files0 = <<>>
    /\ readLog = <<>>
    /\ writeLog = <<>>
    /\ failedAt = 0
    /\ ioFault = FALSE

RewriteInit ==
    /\ doc \in Docs
    /\ text = Render(doc)
    /\ out1 = <<>>
    /\ out2 = <<>>
    /\ rpc = "input"
    /\ DriverIdle

Convert ==
    /\ rpc = "input"
    /\ out1' = convert_figure_shortcode(text)
    /\ rpc' = "once"
    /\ UNCHANGED <<doc, text, out2>>
    /\ UNCHANGED dvars

ConvertAgain ==
    /\ rpc = "once"
    /\ out2' = convert_figure_shortcode(out1)
    /\ rpc' = "twice"
    /\ UNCHANGED <<doc, text, out1>>
    /\ UNCHANGED dvars

RewriteNext == Convert \/ ConvertAgain

SpecRewrite == RewriteInit /\ [][RewriteNext]_vars

----------------------------------------------------------------------------
\* The file system and the command line of the driver.  A name is a
\* sequence of tokens (<<"a", ".md">> is a.md), a path a sequence of names
\* (<<>> is the empty path ''), argv the arguments after the program name.

StemNames == <<"a", "b", "c", "d", "e">>
Stems == {StemNames[i] : i \in 1..MaxFiles}
Rank(stem) == CHOOSE i \in 1..Len(StemNames) : StemNames[i] = stem

MdName(stem) == <<stem, ".md">>
NoteTxt == <<"note", ".txt">>
InDir == <<<<"in">>>>
OutDir == <<<<"out">>>>
BareFile == <<MdName("a")>>

PlainText == <<"See", SP>>
FigureText ==
    Shortcode(<<[key |-> "src=", val |-> <<"/", "a">>],
                [key |-> "caption=", val |-> <<"C">>]>>)
FileTexts == {PlainText, FigureText}

InputArgs == {BareFile, Append(InDir, MdName("a")), InDir, <<<<"nope">>>>}
OutputArgs == {OutDir, Append(OutDir, MdName("r")), <<MdName("r")>>}
Args ==
    {<<>>} \cup {<<p>> : p \in InputArgs}
           \cup {<<p, q>> : p \in InputArgs, q \in OutputArgs}

\* os.path.dirname, os.path.join, Path.name
dirname(p) == SubSeq(p, 1, Len(p) - 1)
join(d, name) == Append(d, name)
basename(p) == p[Len(p)]

isfile(p) == p \in DOMAIN files
isdir(p) == p \in dirs

\* fnmatch of a name against *.md
MatchesMd(name) == name[Len(name)] = ".md"

\* The entries directly inside d that Path(d).glob('*.md') yields.
Glob(d) ==
    {p \in (DOMAIN files) \cup dirs :
        Len(p) = Len(d) + 1 /\ dirname(p) = d /\ MatchesMd(basename(p))}

\* The orders in which the entries of a directory can be enumerated.
Enumerations(S) ==
    {f \in [1..Cardinality(S) -> S] : \A i, j \in 1..Cardinality(S) : i # j => f[i] # f[j]}

Prefixes(d) == {SubSeq(d, 1, n) : n \in 1..Len(d)}

\* os.makedirs(d, exist_ok=True) raises on the empty path and when a
\* component of d is an existing file.
MakedirsRaises(d) == d = <<>> \/ \E q \in Prefixes(d) : isfile(q)

\* open(p, 'w') raises when p is a directory.
OpenForWriteRaises(p) == isdir(p)

Line(kind, src, dst, n) == [kind |-> kind, src |-> src, dst |-> dst, n |-> n]

DriverInit ==
    /\ \E S \in SUBSET Stems : \E c \in [S -> FileTexts] : \E outExists \in BOOLEAN :
          /\ files = [p \in {Append(InDir, MdName(s)) : s \in S}
                              \cup {Append(InDir, NoteTxt), BareFile} |->
                         IF p = BareFile THEN FigureText
                         ELSE IF p = Append(InDir, NoteTxt) THEN PlainText
                         ELSE c[p[2][1]]]
          /\ dirs = {InDir} \cup (IF outExists THEN {OutDir} ELSE {})
    /\ files0 = files
    /\ argv \in Args
    /\ pc = "main"
    /\ stdout = <<>>
    /\ status = -1
    /\ mode = "none"
    /\ md_files = <<>>
    /\ idx = 0
    /\ input_path = <<>>
    /\ output_path = <<>>
    /\ content = <<>>
    /\ converted = <<>>
    /\ readLog = <<>>
    /\ writeLog = <<>>
    /\ failedAt = 0
    /\ ioFault = FALSE
    /\ doc = <<>>
    /\ text = <<>>
    /\ out1 = <<>>
    /\ out2 = <<>>
    /\ rpc = "idle"

\* An exception caught around the call of the batch loop: the batch goes on
\* with the next file.
RaiseCaughtInLoop ==
    IF mode = "batch"
    THEN /\ status' = status
         /\ pc' = "loop"
         /\ idx' = idx + 1
    ELSE /\ status' = 1
         /\ pc' = "exit"
         /\ idx' = idx

\* An exception nothing catches: the interpreter prints the traceback to
\* stderr and the process ends with status 1.
Raise ==
    /\ status' = 1
    /\ pc' = "exit"
    /\ idx' = idx

\* The file of the batch the loop is at, iterating from the end.
CurrentFileReversed == md_files[Len(md_files) + 1 - idx]

\* The file of the batch the loop is at.
CurrentFile == md_files[idx]

\* len(sys.argv) < 2
MainUsage ==
    /\ pc = "main"
    /\ Len(argv) < 1
    /\ stdout' = stdout \o <<Line("Usage", <<>>, <<>>, 0)>>
    /\ status' = 1
    /\ pc' = "exit"
    /\ UNCHANGED <<files, dirs, mode, md_files, idx, input_path, output_path,
                   content, converted, readLog, writeLog, failedAt, ioFault>>
    /\ UNCHANGED <<argv, files0>>
    /\ UNCHANGED rvars

\* os.path.isfile(input_path)
MainSingleFile ==
    /\ pc = "main"
    /\ Len(argv) >= 1
    /\ isfile(argv[1])
    /\ input_path' = argv[1]
    /\ output_path' = IF Len(argv) > 1 THEN argv[2] ELSE argv[1]
    /\ mode' = "single"
    /\ pc' = "read"
    /\ UNCHANGED <<files, dirs, stdout, status, md_files, idx,
                   content, converted, readLog, writeLog, failedAt, ioFault>>
    /\ UNCHANGED <<argv, files0>>
    /\ UNCHANGED rvars

\* os.path.isdir(input_path) and no sys.argv[2]: IndexError
MainDirNoOutput ==
    /\ pc = "main"
    /\ Len(argv) = 1
    /\ ~isfile(argv[1])
    /\ isdir(argv[1])
    /\ Raise
    /\ UNCHANGED <<files, dirs, stdout, mode, md_files, input_path, output_path,
                   content, converted, readLog, writeLog, failedAt, ioFault>>
    /\ UNCHANGED <<argv, files0>>
    /\ UNCHANGED rvars

\* os.path.isdir(input_path): the batch is the list glob yields, in the
\* order the directory is enumerated in.
MainGlob ==
    /\ pc = "main"
    /\ Len(argv) > 1
    /\ ~isfile(argv[1])
    /\ isdir(argv[1])
    /\ md_files' \in Enumerations(Glob(argv[1]))
    /\ idx' = 1
    /\ mode' = "batch"
    /\ pc' = "loop"
    /\ UNCHANGED <<files, dirs, stdout, status, input_path, output_path,
                   content, converted, readLog, writeLog, failedAt, ioFault>>
    /\ UNCHANGED <<argv, files0>>
    /\ UNCHANGED rvars

\* neither a file nor a directory
MainInvalid ==
    /\ pc = "main"
    /\ Len(argv) >= 1
    /\ ~isfile(argv[1])
    /\ ~isdir(argv[1])
    /\ stdout' = stdout \o <<Line("Error", argv[1], <<>>, 0)>>
    /\ status' = 1
    /\ pc' = "exit"
    /\ UNCHANGED <<files, dirs, mode, md_files, idx, input_path, output_path,
                   content, converted, readLog, writeLog, failedAt, ioFault>>
    /\ UNCHANGED <<argv, files0>>
    /\ UNCHANGED rvars

\* for md_file in md_files: process_file(str(md_file), join(output_dir, md_file.name))
LoopBody ==
    /\ pc = "loop"
    /\ idx <= Len(md_files)
    /\ input_path' = CurrentFile
    /\ output_path' = join(argv[2], basename(CurrentFile))
    /\ pc' = "read"
    /\ UNCHANGED <<files, dirs, stdout, status, mode, md_files, idx,
                   content, converted, readLog, writeLog, failedAt, ioFault>>
    /\ UNCHANGED <<argv, files0>>
    /\ UNCHANGED rvars

\* the loop is over: the summary line, and main returns
LoopDone ==
    /\ pc = "loop"
    /\ idx > Len(md_files)
    /\ stdout' = stdout \o <<Line("Total", <<>>, <<>>, Len(md_files))>>
    /\ status' = 0
    /\ pc' = "exit"
    /\ UNCHANGED <<files, dirs, mode, md_files, idx, input_path, output_path,
                   content, converted, readLog, writeLog, failedAt, ioFault>>
    /\ UNCHANGED <<argv, files0>>
    /\ UNCHANGED rvars

\* process_file: open(input_path) and f.read()
PfRead ==
    /\ pc = "read"
    /\ isfile(input_path)
    /\ content' = files[input_path]
    /\ readLog' = Append(readLog, input_path)
    /\ pc' = "convert"
    /\ UNCHANGED <<files, dirs, stdout, status, mode, md_files, idx, input_path,
                   output_path, converted, writeLog, failedAt, ioFault>>
    /\ UNCHANGED <<argv, files0>>
    /\ UNCHANGED rvars

\* process_file: the read fails (the file is unreadable, or is a directory)
PfReadFail ==
    /\ pc = "read"
    /\ ioFault' = (ioFault \/ isfile(input_path))
    /\ failedAt' = IF failedAt = 0 THEN idx ELSE failedAt
    /\ Raise
    /\ UNCHANGED <<files, dirs, stdout, mode, md_files, input_path, output_path,
                   content, converted, readLog, writeLog>>
    /\ UNCHANGED <<argv, files0>>
    /\ UNCHANGED rvars

\* process_file: convert_figure_shortcode(content)
PfConvert ==
    /\ pc = "convert"
    /\ converted' = convert_figure_shortcode(content)
    /\ pc' = "makedirs"
    /\ UNCHANGED <<files, dirs, stdout, status, mode, md_files, idx, input_path,
                   output_path, content, readLog, writeLog, failedAt, ioFault>>
    /\ UNCHANGED <<argv, files0>>
    /\ UNCHANGED rvars

\* process_file: os.makedirs(os.path.dirname(output_path), exist_ok=True)
PfMakedirs ==
    /\ pc = "makedirs"
    /\ ~MakedirsRaises(dirname(output_path))
    /\ dirs' = dirs \cup Prefixes(dirname(output_path))
    /\ pc' = "write"
    /\ UNCHANGED <<files, stdout, status, mode, md_files, idx, input_path,
                   output_path, content, converted, readLog, writeLog, failedAt, ioFault>>
    /\ UNCHANGED <<argv, files0>>
    /\ UNCHANGED rvars

\* process_file: os.makedirs raises, by its arguments or by the file system
PfMakedirsFail ==
    /\ pc = "makedirs"
    /\ ioFault' = (ioFault \/ ~MakedirsRaises(dirname(output_path)))
    /\ failedAt' = IF failedAt = 0 THEN idx ELSE failedAt
    /\ Raise
    /\ UNCHANGED <<files, dirs, stdout, mode, md_files, input_path, output_path,
                   content, converted, readLog, writeLog>>
    /\ UNCHANGED <<argv, files0>>
    /\ UNCHANGED rvars

\* process_file: open(output_path, 'w') and f.write(converted_content)
PfWrite ==
    /\ pc = "write"
    /\ ~OpenForWriteRaises(output_path)
    /\ files' = [p \in (DOMAIN files) \cup {output_path} |->
                    IF p = output_path THEN converted ELSE files[p]]
    /\ writeLog' = Append(writeLog, output_path)
    /\ pc' = "print"
    /\ UNCHANGED <<dirs, stdout, status, mode, md_files, idx, input_path,
                   output_path, content, converted, readLog, failedAt, ioFault>>
    /\ UNCHANGED <<argv, files0>>
    /\ UNCHANGED rvars

\* process_file: the open for writing raises, or the write raises after the
\* open has truncated the file
PfWriteFail ==
    /\ pc = "write"
    /\ \E truncated \in BOOLEAN :
          files' = IF truncated /\ ~OpenForWriteRaises(output_path)
                   THEN [p \in (DOMAIN files) \cup {output_path} |->
                            IF p = output_path THEN <<>> ELSE files[p]]
                   ELSE files
    /\ ioFault' = (ioFault \/ ~OpenForWriteRaises(output_path))
    /\ failedAt' = IF failedAt = 0 THEN idx ELSE failedAt
    /\ Raise
    /\ UNCHANGED <<dirs, stdout, mode, md_files, input_path, output_path,
                   content, converted, readLog, writeLog>>
    /\ UNCHANGED <<argv, files0>>
    /\ UNCHANGED rvars

\* process_file: print("Processed: ..."), and the return to main
PfPrint ==
    /\ pc = "print"
    /\ stdout' = stdout \o <<Line("Processed", input_path, output_path, 0)>>
    /\ IF mode = "single"
       THEN /\ status' = 0
            /\ pc' = "exit"
            /\ idx' = idx
       ELSE /\ status' = status
            /\ pc' = "loop"
            /\ idx' = idx + 1
    /\ UNCHANGED <<files, dirs, mode, md_files, input_path, output_path,
                   content, converted, readLog, writeLog, failedAt, ioFault>>
    /\ UNCHANGED <<argv, files0>>
    /\ UNCHANGED rvars

DriverNext ==
    \/ MainUsage
    \/ MainSingleFile
    \/ MainDirNoOutput
    \/ MainGlob
    \/ MainInvalid
    \/ LoopBody
    \/ LoopDone
    \/ PfRead
    \/ PfReadFail
    \/ PfConvert
    \/ PfMakedirs
    \/ PfMakedirsFail
    \/ PfWrite
    \/ PfWriteFail
    \/ PfPrint

SpecDriver == DriverInit /\ [][DriverNext]_vars

----------------------------------------------------------------------------
\* What the claims about the rewriter speak of.

HasKey(as, k) == \E i \in 1..Len(as) : as[i].key = k
ValOf(as, k) == as[CHOOSE i \in 1..Len(as) : as[i].key = k].val

\* The src the claims expect: 'static' before a src that begins with '/'.
Rewritten(src) == IF src[1] = "/" THEN <<"static">> \o src ELSE src

IsCaptioned(it) ==
    /\ it.kind = "figure"
    /\ HasKey(it.attrs, "src=")
    /\ ValOf(it.attrs, "src=")[1] = "/"
    /\ HasKey(it.attrs, "caption=")

\* ![C](static<src>) for a captioned figure, the text itself for plain text.
CaptionedText(it) ==
    IF it.kind = "figure"
    THEN <<"![">> \o ValOf(it.attrs, "caption=") \o <<"](", "static">>
             \o ValOf(it.attrs, "src=") \o <<")">>
    ELSE ItemText(it)

RECURSIVE CaptionedRender(_)
CaptionedRender(d) ==
    IF d = <<>> THEN <<>> ELSE CaptionedText(d[1]) \o CaptionedRender(Tail(d))

\* C1: in a document of plain text and figure shortcodes that each have a
\* src beginning with '/' and a caption C, every shortcode is replaced by
\* ![C](static<src>) and the text around it is unchanged.
C1_CaptionedFigureRewritten ==
    (/\ rpc # "input"
     /\ \E i \in 1..Len(doc) : IsCaptioned(doc[i])
     /\ \A i \in 1..Len(doc) : IsCaptioned(doc[i]) \/ doc[i].kind = "text")
        => out1 = CaptionedRender(doc)

\* C2: an input that is only a figure shortcode with no src attribute,
\* whatever its other attributes and values, is rewritten to the empty text.
C2_NoSrcFigureDeleted ==
    (/\ rpc # "input"
     /\ Len(doc) = 1
     /\ doc[1].kind = "figure"
     /\ ~HasKey(doc[1].attrs, "src="))
        => out1 = <<>>

\* C3: a figure shortcode with a src and neither caption nor title is
\* rewritten to ![](<rewritten-src>), the leading '!' included.
C3_UncaptionedFigureIsImage ==
    (/\ rpc # "input"
     /\ Len(doc) = 1
     /\ doc[1].kind = "figure"
     /\ HasKey(doc[1].attrs, "src=")
     /\ ~HasKey(doc[1].attrs, "caption=")
     /\ ~HasKey(doc[1].attrs, "title="))
        => out1 = <<"![", "](">> \o Rewritten(ValOf(doc[1].attrs, "src=")) \o <<")">>

\* The positions of the Markdown images ![x]( of a text, in order, and the
\* path of the image at a position.
Ascending(I) ==
    [n \in 1..Cardinality(I) |-> CHOOSE i \in I : Cardinality({j \in I : j < i}) = n - 1]
PathAt(t, i) ==
    SubSeq(t, i, (CHOOSE j \in i..(Len(t) + 1) :
                     /\ At(t, j) \in {")", EOT}
                     /\ \A k \in i..(j - 1) : t[k] # ")") - 1)
XImagePaths(t) ==
    LET I == {i \in 1..Len(t) : t[i] = "![" /\ At(t, i + 1) = "x" /\ At(t, i + 2) = "]("}
        pos == Ascending(I)
    IN [n \in 1..Cardinality(I) |-> PathAt(t, pos[n] + 3)]
DocImagePaths(d) ==
    LET I == {i \in 1..Len(d) : d[i].kind = "image"}
        pos == Ascending(I)
    IN [n \in 1..Cardinality(I) |-> d[pos[n]].path]

SrcFirst(as) ==
    LET i == CHOOSE j \in 1..Len(as) : as[j].key = "src="
    IN <<as[i]>> \o SubSeq(as, 1, i - 1) \o SubSeq(as, i + 1, Len(as))

\* C5: a figure shortcode with a src is rewritten to what the shortcode
\* with the same attributes and src first is rewritten to, and is not
\* deleted as a shortcode without src is.
C5_AttributeOrderIrrelevant ==
    (/\ rpc # "input"
     /\ Len(doc) = 1
     /\ doc[1].kind = "figure"
     /\ HasKey(doc[1].attrs, "src="))
        => /\ out1 = convert_figure_shortcode(Shortcode(SrcFirst(doc[1].attrs)))
           /\ out1 # <<>>

\* The paths of the image references ](path) of a text that begin with
\* static/, in order.
StaticImagePaths(t) ==
    LET I == {i \in 1..Len(t) :
                 t[i] = "](" /\ At(t, i + 1) = "static" /\ At(t, i + 2) = "/"}
        pos == Ascending(I)
    IN [n \in 1..Cardinality(I) |-> PathAt(t, pos[n] + 1)]

\* C9: on a document of figure shortcodes, Markdown images and plain text,
\* the image paths that begin with static/ after the first application are
\* the image paths that begin with static/ after the second, one for one
\* and in the same order: the second application alters none of them.
C9_StaticPathsStable ==
    rpc = "twice" => StaticImagePaths(out2) = StaticImagePaths(out1)

C9_Witness ==
    /\ rpc = "twice"
    /\ StaticImagePaths(text) = <<>>
    /\ Len(StaticImagePaths(out1)) = 2
    /\ out2 = out1

----------------------------------------------------------------------------
\* What the claims about the driver speak of.

Range(q) == {q[i] : i \in 1..Len(q)}
Printed(kind) == \E i \in 1..Len(stdout) : stdout[i].kind = kind
Exited == pc = "exit"

\* The inputs of the 'Processed:' lines printed so far, in order.
ProcessedInputs ==
    LET I == {i \in 1..Len(stdout) : stdout[i].kind = "Processed"}
        pos == Ascending(I)
    IN [n \in 1..Cardinality(I) |-> stdout[pos[n]].src]

\* C6: in single-file mode with no output argument, on an existing regular
\* file that can be read and written, the program reads the file, writes
\* the transformed text back to the same path, prints the 'Processed:'
\* line and exits with status 0.
C6_InPlaceSingleFile ==
    (/\ Exited
     /\ Len(argv) = 1
     /\ argv[1] \in DOMAIN files0
     /\ ~ioFault)
        => /\ status = 0
           /\ readLog = <<argv[1]>>
           /\ files[argv[1]] = convert_figure_shortcode(files0[argv[1]])
           /\ stdout = <<Line("Processed", argv[1], argv[1], 0)>>

\* C7: with a directory as input and no output directory argument the
\* program prints the usage text and exits with a non-zero status, and no
\* file has been read or written.
C7_DirWithoutOutputIsUsageError ==
    (/\ Exited
     /\ Len(argv) = 1
     /\ argv[1] \notin DOMAIN files0
     /\ argv[1] \in dirs)
        => /\ Printed("Usage")
           /\ status > 0
           /\ readLog = <<>>
           /\ writeLog = <<>>

\* C8 as stated: in batch mode the 'Processed:' lines come in ascending
\* lexicographic order of the file names.
C8_ProcessedInNameOrder ==
    mode = "batch" =>
        \A i, j \in 1..Len(ProcessedInputs) :
            i < j => Rank(basename(ProcessedInputs[i])[1])
                        < Rank(basename(ProcessedInputs[j])[1])

\* C8 as amended: in batch mode the 'Processed:' lines come in the order in
\* which glob enumerated the directory, one per file and none twice; after
\* a batch that ran to its end they are the *.md files directly inside the
\* input directory and nothing else.
C8_ProcessedInEnumerationOrder ==
    mode = "batch" =>
        /\ Len(ProcessedInputs) <= Len(md_files)
        /\ ProcessedInputs = SubSeq(md_files, 1, Len(ProcessedInputs))
        /\ (Exited /\ status = 0) =>
              Range(ProcessedInputs) =
                  {p \in DOMAIN files0 :
                      dirname(p) = argv[1] /\ basename(p)[2] = ".md"}

C8_Witness ==
    /\ mode = "batch"
    /\ Exited
    /\ status = 0
    /\ Len(md_files) = 3
    /\ Rank(basename(md_files[1])[1]) > Rank(basename(md_files[2])[1])
    /\ ProcessedInputs = md_files

\* C10: once process_file has failed for a file of the batch, the process
\* has ended with a non-zero status, the 'Total processed' line is not
\* printed, no later file of the batch has been read or written, and every
\* file before the failing one has its transformed text in the output
\* directory.
C10_BatchFailFast ==
    (mode = "batch" /\ failedAt # 0) =>
        /\ Exited
        /\ status > 0
        /\ ~Printed("Total")
        /\ \A j \in (failedAt + 1)..Len(md_files) :
              /\ md_files[j] \notin Range(readLog)
              /\ join(argv[2], basename(md_files[j])) \notin Range(writeLog)
        /\ \A j \in 1..(failedAt - 1) :
              /\ join(argv[2], basename(md_files[j])) \in DOMAIN files
              /\ files[join(argv[2], basename(md_files[j]))]
                    = convert_figure_shortcode(files0[md_files[j]])

C10_Witness ==
    /\ mode = "batch"
    /\ failedAt = 2
    /\ Len(md_files) = 3
    /\ Exited
    /\ Len(writeLog) = 1

====
